---- MODULE Spec2Model ----
(***************************************************************************)
(* Model of the Energy Harvester registry of src/src/index.ts: one stable  *)
(* map from identifier to harvester and the canister methods over it.      *)
(*                                                                         *)
(* Values are modelled as the JavaScript values the code builds: objects   *)
(* are records, Result.Ok(v) is [Ok |-> v], Result.Err(m) is [Err |-> m],  *)
(* an Opt is [Some |-> v] or [None |-> "null"], and object spread is       *)
(* Spread.  `match` is azle's match, as the import documented at           *)
(* index.ts:289 has it.  Keys and values stay within the sizes the map was *)
(* constructed with (index.ts:21), so no storage call throws.              *)
(***************************************************************************)
EXTENDS Integers, Sequences, FiniteSets, TLC

VARIABLES energyHarvesterStorage, uuidCount, call, result

vars == <<energyHarvesterStorage, uuidCount, call, result>>

(* ---------------------------- bounds and inputs ------------------------ *)

\* number of identifiers the identifier source hands out in one run
MaxUuid == 2

\* the i-th identifier produced by uuidv4(): fresh on every call
Uuid(i) == "u" \o ToString(i)

\* id values a caller can put in a payload or pass as an argument: the empty
\* string, an identifier of its own choosing, and any identifier minted so far
CallerIds(n) == {"", "x"} \cup {Uuid(i) : i \in 1..n}

R10 == [id |-> "r1", source |-> "solar", powerGenerated |-> 10, timestamp |-> 1000]

R20 == [id |-> "r2", source |-> "wind", powerGenerated |-> 20, timestamp |-> 2000]

\* name and location are strings whose characters search reads: a string is
\* the sequence of its characters, the empty string the empty sequence
EmptyString == << >>

\* two complete harvester descriptions: "Sun" at "North", "Wind" at "SUNny"
Profiles ==
    { [name |-> <<"S", "u", "n">>,
       location |-> <<"N", "o", "r", "t", "h">>,
       energyRecords |-> <<R10>>],
      [name |-> <<"W", "i", "n", "d">>,
       location |-> <<"S", "U", "N", "n", "y">>,
       energyRecords |-> <<R10, R20>>] }

\* a description with any of its three fields left empty
Bodies ==
    { [name |-> IF noName THEN EmptyString ELSE p.name,
       location |-> IF noLocation THEN EmptyString ELSE p.location,
       energyRecords |-> IF noRecords THEN << >> ELSE p.energyRecords] :
         p \in Profiles, noName \in BOOLEAN, noLocation \in BOOLEAN,
         noRecords \in BOOLEAN }

\* payloads of add/update: a description without an id field, or a complete
\* one with an id field drawn from ids
Payloads(ids) ==
    Bodies \cup { [id |-> i, name |-> p.name, location |-> p.location,
                   energyRecords |-> p.energyRecords] : p \in Profiles, i \in ids }

\* what addEnergyHarvester is called with once n identifiers were minted
AddPayloads(n) == Payloads(CallerIds(n))

\* what updateEnergyHarvester is called with: its payload's id is never read
UpdatePayloads == Payloads({"x"})

\* what searchEnergyHarvesters is called with: "", "sun", "SUN", "win", "th", "z"
Queries ==
    { EmptyString, <<"s", "u", "n">>, <<"S", "U", "N">>, <<"w", "i", "n">>,
      <<"t", "h">>, <<"z">> }

(* ------------------------------ azle values ---------------------------- *)

Ok(v) == [Ok |-> v]

Err(m) == [Err |-> m]

IsOk(r) == "Ok" \in DOMAIN r

IsErr(r) == "Err" \in DOMAIN r

Some(v) == [Some |-> v]

None == [None |-> "null"]

\* { ...base, ...over }: later properties win
Spread(base, over) ==
    [k \in DOMAIN base \cup DOMAIN over |->
        IF k \in DOMAIN over THEN over[k] ELSE base[k]]

(* ------------------------- strings and numbers ------------------------- *)

UpperToLower == [S |-> "s", U |-> "u", N |-> "n", W |-> "w", T |-> "t", H |-> "h"]

\* String.prototype.toLowerCase
toLowerCase(str) ==
    [i \in 1..Len(str) |->
        IF str[i] \in DOMAIN UpperToLower THEN UpperToLower[str[i]] ELSE str[i]]

\* String.prototype.includes
includes(str, searchString) ==
    \E i \in 1..(Len(str) - Len(searchString) + 1) :
        SubSeq(str, i, i + Len(searchString) - 1) = searchString

RECURSIVE Gcd(_, _)
Gcd(a, b) == IF b = 0 THEN a ELSE Gcd(b, a % b)

\* a / b for naturals a, b with b > 0: the quotient as a fraction in lowest terms
Divide(a, b) == [num |-> a \div Gcd(a, b), den |-> b \div Gcd(a, b)]

(* ---------------------------- StableBTreeMap --------------------------- *)

StorageGet(st, k) == IF k \in DOMAIN st THEN Some(st[k]) ELSE None

StorageInsert(st, k, v) ==
    [x \in DOMAIN st \cup {k} |-> IF x = k THEN v ELSE st[x]]

StorageRemove(st, k) == [x \in DOMAIN st \ {k} |-> st[x]]

StorageValues(st) == {st[k] : k \in DOMAIN st}

(* ------------------------------ messages ------------------------------- *)

MissingFields == "Missing required fields in the energy harvester object"

InvalidIdGet == "Invalid ID for getting an energy harvester."

InvalidIdUpdate == "Invalid ID for updating an energy harvester."

InvalidIdDelete == "Invalid ID for deleting an energy harvester."

DoesNotExist(id) == "Energy harvester with id=" \o id \o " does not exist"

InvalidIdRecords == "Invalid ID for retrieving energy records."

NotFoundMsg(id) == "Energy harvester with id=" \o id \o " not found"

NoRecordsFound == "No energy records found"

(* ------------------------------ operations ----------------------------- *)

\* the validator with the location check left out
MissingRequired_NoLocation(payload) ==
    \/ payload.name = EmptyString
    \/ Len(payload.energyRecords) = 0

\* the validator with the record count check left out
MissingRequired_NoRecords(payload) ==
    \/ payload.name = EmptyString
    \/ payload.location = EmptyString

\* !payload.name || !payload.location || payload.energyRecords.length === 0
MissingRequired(payload) ==
    \/ payload.name = EmptyString
    \/ payload.location = EmptyString
    \/ Len(payload.energyRecords) = 0

\* addEnergyHarvester storing the new entity under the minted identifier
\* instead of under the entity's own id
addEnergyHarvester_KeyIsUuid(st, harvesterId, payload) ==
    IF MissingRequired(payload)
    THEN [storage |-> st, result |-> Err(MissingFields)]
    ELSE LET newHarvester == Spread([id |-> harvesterId], payload)
         IN  [storage |-> StorageInsert(st, harvesterId, newHarvester),
              result  |-> Ok(newHarvester)]

\* addEnergyHarvester(payload), harvesterId being what uuidv4() returns
addEnergyHarvester(st, harvesterId, payload) ==
    IF MissingRequired(payload)
    THEN [storage |-> st, result |-> Err(MissingFields)]
    ELSE LET newHarvester == Spread([id |-> harvesterId], payload)
         IN  [storage |-> StorageInsert(st, newHarvester.id, newHarvester),
              result  |-> Ok(newHarvester)]

\* getEnergyHarvesters(): Result.Ok(energyHarvesterStorage.values())
getEnergyHarvesters(st) == Ok(StorageValues(st))

\* getEnergyHarvester(id): the Opt that get returns is wrapped as it is
getEnergyHarvester(st, id) ==
    IF id = ""
    THEN Err(InvalidIdGet)
    ELSE Ok(StorageGet(st, id))

\* updateEnergyHarvester writing the entity without looking the id up first
updateEnergyHarvester_Upsert(st, id, payload) ==
    IF id = ""
    THEN [storage |-> st, result |-> Err(InvalidIdUpdate)]
    ELSE IF MissingRequired(payload)
    THEN [storage |-> st, result |-> Err(MissingFields)]
    ELSE LET updatedHarvester ==
                 [id |-> id, name |-> payload.name,
                  location |-> payload.location,
                  energyRecords |-> payload.energyRecords]
         IN  [storage |-> StorageInsert(st, id, updatedHarvester),
              result  |-> Ok(updatedHarvester)]

\* updateEnergyHarvester(id, payload)
updateEnergyHarvester(st, id, payload) ==
    IF id = ""
    THEN [storage |-> st, result |-> Err(InvalidIdUpdate)]
    ELSE IF MissingRequired(payload)
    THEN [storage |-> st, result |-> Err(MissingFields)]
    ELSE LET found == StorageGet(st, id)
         IN  IF "Some" \in DOMAIN found
             THEN LET existingHarvester == found.Some
                      updatedHarvester ==
                          Spread(existingHarvester,
                                 [name |-> payload.name,
                                  location |-> payload.location,
                                  energyRecords |-> payload.energyRecords])
                  IN  [storage |-> StorageInsert(st, id, updatedHarvester),
                       result  |-> Ok(updatedHarvester)]
             ELSE [storage |-> st, result |-> Err(DoesNotExist(id))]

\* deleteEnergyHarvester(id)
deleteEnergyHarvester(st, id) ==
    IF id = ""
    THEN [storage |-> st, result |-> Err(InvalidIdDelete)]
    ELSE LET removed == StorageGet(st, id)
         IN  IF "Some" \in DOMAIN removed
             THEN [storage |-> StorageRemove(st, id),
                   result  |-> Ok(removed.Some)]
             ELSE [storage |-> st, result |-> Err(DoesNotExist(id))]

\* searchEnergyHarvesters comparing against the query as it was typed
searchEnergyHarvesters_QueryAsTyped(st, query) ==
    Ok({ harvester \in StorageValues(st) :
            \/ includes(toLowerCase(harvester.name), query)
            \/ includes(toLowerCase(harvester.location), query) })

\* searchEnergyHarvesters(query)
searchEnergyHarvesters(st, query) ==
    LET lowerCaseQuery == toLowerCase(query)
    IN  Ok({ harvester \in StorageValues(st) :
                \/ includes(toLowerCase(harvester.name), lowerCaseQuery)
                \/ includes(toLowerCase(harvester.location), lowerCaseQuery) })

\* getEnergyRecords(id)
getEnergyRecords(st, id) ==
    IF id = ""
    THEN Err(InvalidIdRecords)
    ELSE LET found == StorageGet(st, id)
         IN  IF "Some" \in DOMAIN found
             THEN Ok(found.Some.energyRecords)
             ELSE Err(NotFoundMsg(id))

\* harvester.energyRecords.forEach(...): totalPower += ...; totalRecords++
RECURSIVE ForEachRecord(_, _)
ForEachRecord(records, acc) ==
    IF records = << >>
    THEN acc
    ELSE ForEachRecord(Tail(records),
                       [totalPower |-> acc.totalPower + Head(records).powerGenerated,
                        totalRecords |-> acc.totalRecords + 1])

\* energyHarvesterStorage.values().forEach(...) over the harvesters left
RECURSIVE ForEachHarvester(_, _)
ForEachHarvester(harvesters, acc) ==
    IF harvesters = {}
    THEN acc
    ELSE LET harvester == CHOOSE h \in harvesters : TRUE
         IN  ForEachHarvester(harvesters \ {harvester},
                              ForEachRecord(harvester.energyRecords, acc))

\* getTotalPowerGenerated adding only the first record of each harvester
getTotalPowerGenerated_FirstRecord(st) ==
    Ok(ForEachHarvester({ [energyRecords |-> SubSeq(h.energyRecords, 1, 1)] :
                             h \in StorageValues(st) },
                        [totalPower |-> 0, totalRecords |-> 0]).totalPower)

\* getTotalPowerGenerated()
getTotalPowerGenerated(st) ==
    Ok(ForEachHarvester(StorageValues(st),
                        [totalPower |-> 0, totalRecords |-> 0]).totalPower)

\* getAveragePowerGenerated dividing by the number of harvesters
getAveragePowerGenerated_PerHarvester(st) ==
    LET sums == ForEachHarvester(StorageValues(st),
                                 [totalPower |-> 0, totalRecords |-> 0])
    IN  IF Cardinality(StorageValues(st)) = 0
        THEN Err(NoRecordsFound)
        ELSE Ok(Divide(sums.totalPower, Cardinality(StorageValues(st))))

\* getAveragePowerGenerated()
getAveragePowerGenerated(st) ==
    LET sums == ForEachHarvester(StorageValues(st),
                                 [totalPower |-> 0, totalRecords |-> 0])
    IN  IF sums.totalRecords = 0
        THEN Err(NoRecordsFound)
        ELSE Ok(Divide(sums.totalPower, sums.totalRecords))


(* ------------------------------- actions ------------------------------- *)

Init ==
    /\ energyHarvesterStorage = << >>
    /\ uuidCount = 0
    /\ call = [op |-> "init"]
    /\ result = Ok("init")

\* one call of addEnergyHarvester; uuidv4() is consulted only past validation
AddEnergyHarvester ==
    \E payload \in AddPayloads(uuidCount) :
        /\ MissingRequired(payload) \/ uuidCount < MaxUuid
        /\ LET harvesterId == Uuid(uuidCount + 1)
               r == addEnergyHarvester(energyHarvesterStorage, harvesterId, payload)
           IN  /\ energyHarvesterStorage' = r.storage
               /\ result' = r.result
               /\ call' = IF MissingRequired(payload)
                          THEN [op |-> "add", payload |-> payload]
                          ELSE [op |-> "add", payload |-> payload,
                                uuid |-> harvesterId]
        /\ uuidCount' = IF MissingRequired(payload) THEN uuidCount
                        ELSE uuidCount + 1

GetEnergyHarvesters ==
    /\ call' = [op |-> "list"]
    /\ result' = getEnergyHarvesters(energyHarvesterStorage)
    /\ UNCHANGED <<energyHarvesterStorage, uuidCount>>

GetEnergyHarvester ==
    \E id \in CallerIds(uuidCount) :
        /\ call' = [op |-> "get", id |-> id]
        /\ result' = getEnergyHarvester(energyHarvesterStorage, id)
        /\ UNCHANGED <<energyHarvesterStorage, uuidCount>>

UpdateEnergyHarvester ==
    \E id \in CallerIds(uuidCount), payload \in UpdatePayloads :
        /\ LET r == updateEnergyHarvester(energyHarvesterStorage, id, payload)
           IN  /\ energyHarvesterStorage' = r.storage
               /\ result' = r.result
        /\ call' = [op |-> "update", id |-> id, payload |-> payload]
        /\ UNCHANGED uuidCount

DeleteEnergyHarvester ==
    \E id \in CallerIds(uuidCount) :
        /\ LET r == deleteEnergyHarvester(energyHarvesterStorage, id)
           IN  /\ energyHarvesterStorage' = r.storage
               /\ result' = r.result
        /\ call' = [op |-> "delete", id |-> id]
        /\ UNCHANGED uuidCount

SearchEnergyHarvesters ==
    \E query \in Queries :
        /\ call' = [op |-> "search", query |-> query]
        /\ result' = searchEnergyHarvesters(energyHarvesterStorage, query)
        /\ UNCHANGED <<energyHarvesterStorage, uuidCount>>

\* getEnergyRecords looking the harvester up with remove instead of get
GetEnergyRecords_Removing ==
    \E id \in CallerIds(uuidCount) :
        /\ call' = [op |-> "records", id |-> id]
        /\ result' = getEnergyRecords(energyHarvesterStorage, id)
        /\ energyHarvesterStorage' = StorageRemove(energyHarvesterStorage, id)
        /\ UNCHANGED uuidCount

GetEnergyRecords ==
    \E id \in CallerIds(uuidCount) :
        /\ call' = [op |-> "records", id |-> id]
        /\ result' = getEnergyRecords(energyHarvesterStorage, id)
        /\ UNCHANGED <<energyHarvesterStorage, uuidCount>>

GetTotalPowerGenerated ==
    /\ call' = [op |-> "total"]
    /\ result' = getTotalPowerGenerated(energyHarvesterStorage)
    /\ UNCHANGED <<energyHarvesterStorage, uuidCount>>

GetAveragePowerGenerated ==
    /\ call' = [op |-> "average"]
    /\ result' = getAveragePowerGenerated(energyHarvesterStorage)
    /\ UNCHANGED <<energyHarvesterStorage, uuidCount>>

Next ==
    \/ AddEnergyHarvester
    \/ GetEnergyHarvesters
    \/ GetEnergyHarvester
    \/ UpdateEnergyHarvester
    \/ DeleteEnergyHarvester
    \/ SearchEnergyHarvesters
    \/ GetEnergyRecords
    \/ GetTotalPowerGenerated
    \/ GetAveragePowerGenerated

Spec == Init /\ [][Next]_vars

(* --------------------------- error taxonomy ---------------------------- *)

IsInvalidArgument(r) ==
    IsErr(r) /\ r.Err \in {InvalidIdGet, InvalidIdUpdate, InvalidIdDelete,
                           InvalidIdRecords}

IsValidationError(r) == IsErr(r) /\ r.Err = MissingFields

IsNoData(r) == IsErr(r) /\ r.Err = NoRecordsFound

\* an error that is none of the three above
IsNotFound(r) ==
    IsErr(r) /\ ~IsInvalidArgument(r) /\ ~IsValidationError(r) /\ ~IsNoData(r)

Keys(st) == DOMAIN st

\* a valid payload in the words of the specification: non-empty name,
\* non-empty location, at least one record
ValidPayload(p) ==
    /\ Len(p.name) >= 1
    /\ Len(p.location) >= 1
    /\ Len(p.energyRecords) >= 1

(* -------------------------------- claims ------------------------------- *)

\* C1: after a successful create returning E, getById(E.id) issued next
\* succeeds and returns an entity equal to E.
C1_RoundTrip ==
    (call.op = "add" /\ IsOk(result)) =>
        getEnergyHarvester(energyHarvesterStorage, result.Ok.id) = Ok(result.Ok)

\* C2: the id of the entity a successful create returns and stores is the
\* identifier obtained from the identifier source for that call.
C2_IdIsMinted ==
    (call.op = "add" /\ IsOk(result)) =>
        /\ result.Ok.id = call.uuid
        /\ call.uuid \in Keys(energyHarvesterStorage)
        /\ energyHarvesterStorage[call.uuid] = result.Ok

\* C3: a successful create adds exactly one entry and leaves every entry that
\* was stored before under the same key with the same contents.
C3_CreateOnlyAdds ==
    [][(call'.op = "add" /\ IsOk(result')) =>
          /\ Cardinality(Keys(energyHarvesterStorage')) =
                 Cardinality(Keys(energyHarvesterStorage)) + 1
          /\ \A k \in Keys(energyHarvesterStorage) :
                 /\ k \in Keys(energyHarvesterStorage')
                 /\ energyHarvesterStorage'[k] = energyHarvesterStorage[k]]_vars

\* C4: every key of the store equals the id field of the entity stored under it.
C4_KeyEqualsId ==
    \A k \in Keys(energyHarvesterStorage) : energyHarvesterStorage[k].id = k

\* an update has just succeeded in a store that also holds an entity whose id
\* came from the caller
C4_Witness ==
    /\ call.op = "update"
    /\ IsOk(result)
    /\ "x" \in Keys(energyHarvesterStorage)
    /\ Cardinality(Keys(energyHarvesterStorage)) >= 2

\* C5: getById returns the stored entity when id is a key, NotFound when id is
\* non-empty and absent, InvalidArgument when id is empty; it succeeds only
\* for a key of the store.
C5_GetById ==
    call.op = "get" =>
        /\ call.id = "" => result = Err(InvalidIdGet)
        /\ (call.id # "" /\ call.id \in Keys(energyHarvesterStorage)) =>
               result = Ok(energyHarvesterStorage[call.id])
        /\ (call.id # "" /\ call.id \notin Keys(energyHarvesterStorage)) =>
               IsNotFound(result)
        /\ IsOk(result) => call.id \in Keys(energyHarvesterStorage)

\* C6: after delete(id) succeeds, id is no key of the store and getById(id)
\* issued next returns the NotFound error.
C6_DeleteThenGet ==
    (call.op = "delete" /\ IsOk(result)) =>
        /\ call.id \notin Keys(energyHarvesterStorage)
        /\ IsNotFound(getEnergyHarvester(energyHarvesterStorage, call.id))

\* C7: for every stored entity E and valid payload P, update(E.id, P) succeeds,
\* returns E.id with P's name, location and energyRecords, and the store then
\* holds that entity under E.id.
C7_UpdateReplaces ==
    [][(/\ call'.op = "update"
        /\ call'.id \in Keys(energyHarvesterStorage)
        /\ ValidPayload(call'.payload)) =>
          /\ IsOk(result')
          /\ result'.Ok.id = energyHarvesterStorage[call'.id].id
          /\ result'.Ok.name = call'.payload.name
          /\ result'.Ok.location = call'.payload.location
          /\ result'.Ok.energyRecords = call'.payload.energyRecords
          /\ call'.id \in Keys(energyHarvesterStorage')
          /\ energyHarvesterStorage'[call'.id] = result'.Ok]_vars

\* C8 as stated: create and update return ValidationError for every payload
\* with an empty name, location or energyRecords, leaving the store unchanged,
\* and never return it for a payload with all three non-empty.
C8_Original ==
    [][call'.op \in {"add", "update"} =>
          IF ~ValidPayload(call'.payload)
          THEN /\ IsValidationError(result')
               /\ energyHarvesterStorage' = energyHarvesterStorage
          ELSE ~IsValidationError(result')]_vars

\* C8: create returns ValidationError for every payload with an empty name,
\* location or energyRecords, and update does so whenever its id is non-empty
\* (an empty id is rejected first, with InvalidArgument); the rejected call
\* leaves the store unchanged, and a payload with all three non-empty is never
\* rejected with ValidationError.
C8_ValidationGate ==
    [][call'.op \in {"add", "update"} =>
          IF ~ValidPayload(call'.payload)
          THEN /\ IF call'.op = "update" /\ call'.id = ""
                  THEN IsInvalidArgument(result')
                  ELSE IsValidationError(result')
               /\ energyHarvesterStorage' = energyHarvesterStorage
          ELSE ~IsValidationError(result')]_vars

\* an update of a stored harvester was rejected for its empty location alone
C8_Witness ==
    /\ call.op = "update"
    /\ call.id \in Keys(energyHarvesterStorage)
    /\ Len(call.payload.name) >= 1
    /\ Len(call.payload.location) = 0
    /\ Len(call.payload.energyRecords) > 0
    /\ IsValidationError(result)

\* C9: update returns InvalidArgument for an empty id whatever the payload,
\* NotFound for a non-empty absent id with a valid payload, leaves the store
\* unchanged in both cases, and never adds a key.
C9_UpdateMissing ==
    [][call'.op = "update" =>
          /\ call'.id = "" =>
                 /\ result' = Err(InvalidIdUpdate)
                 /\ energyHarvesterStorage' = energyHarvesterStorage
          /\ (/\ call'.id # ""
              /\ ValidPayload(call'.payload)
              /\ call'.id \notin Keys(energyHarvesterStorage)) =>
                 /\ result' = Err(DoesNotExist(call'.id))
                 /\ energyHarvesterStorage' = energyHarvesterStorage
          /\ Keys(energyHarvesterStorage') \subseteq Keys(energyHarvesterStorage)]_vars

\* a valid update of an absent id was refused while the store held an entry
C9_Witness ==
    /\ call.op = "update"
    /\ call.id # ""
    /\ ValidPayload(call.payload)
    /\ call.id \notin Keys(energyHarvesterStorage)
    /\ result = Err(DoesNotExist(call.id))
    /\ Keys(energyHarvesterStorage) # {}

\* C10: delete of a stored key removes exactly that entry and returns it;
\* delete of a non-empty absent id returns NotFound, of an empty id
\* InvalidArgument, both leaving the store unchanged.
C10_Delete ==
    [][call'.op = "delete" =>
          /\ call'.id \in Keys(energyHarvesterStorage) =>
                 /\ result' = Ok(energyHarvesterStorage[call'.id])
                 /\ energyHarvesterStorage' =
                        StorageRemove(energyHarvesterStorage, call'.id)
          /\ (call'.id # "" /\ call'.id \notin Keys(energyHarvesterStorage)) =>
                 /\ result' = Err(DoesNotExist(call'.id))
                 /\ energyHarvesterStorage' = energyHarvesterStorage
          /\ call'.id = "" =>
                 /\ result' = Err(InvalidIdDelete)
                 /\ energyHarvesterStorage' = energyHarvesterStorage]_vars

(* ----------------------- aggregation, as specified --------------------- *)

\* one slot <<k, i>> for the i-th record of the harvester stored under k
RecordSlots(st) ==
    UNION { { <<k, i>> : i \in 1..Len(st[k].energyRecords) } : k \in Keys(st) }

RECURSIVE SumOverSlots(_, _)
SumOverSlots(st, slots) ==
    IF slots = {}
    THEN 0
    ELSE LET s == CHOOSE x \in slots : TRUE
         IN  st[s[1]].energyRecords[s[2]].powerGenerated
                 + SumOverSlots(st, slots \ {s})

\* the sum of powerGenerated over every record of every stored harvester
PowerSum(st) == SumOverSlots(st, RecordSlots(st))

\* the number of records over all stored harvesters
RecordCount(st) == Cardinality(RecordSlots(st))

\* C11: averagePower returns NoData exactly when the store holds no record at
\* all, and otherwise the sum of powerGenerated over all records divided by
\* the number of records.
C11_AveragePower ==
    call.op = "average" =>
        IF RecordCount(energyHarvesterStorage) = 0
        THEN IsNoData(result)
        ELSE /\ IsOk(result)
             /\ result.Ok.den > 0
             /\ result.Ok.num * RecordCount(energyHarvesterStorage) =
                    PowerSum(energyHarvesterStorage) * result.Ok.den

\* the average of [10] and [10, 20] was asked for: 40 / 3
C11_Witness ==
    /\ call.op = "average"
    /\ IsOk(result)
    /\ Cardinality(Keys(energyHarvesterStorage)) = 2
    /\ RecordCount(energyHarvesterStorage) = 3
    /\ result.Ok = [num |-> 40, den |-> 3]

\* C12: totalPower always succeeds and returns the sum of powerGenerated over
\* every record of every harvester now in the store, 0 on an empty store.
C12_TotalPower ==
    call.op = "total" =>
        /\ result = Ok(PowerSum(energyHarvesterStorage))
        /\ Keys(energyHarvesterStorage) = {} => result = Ok(0)

\* the total was asked for once two creates had succeeded and a single
\* harvester, with records [10, 20], was left in the store: 30, nothing stale
C12_Witness ==
    /\ call.op = "total"
    /\ uuidCount = MaxUuid
    /\ Cardinality(Keys(energyHarvesterStorage)) = 1
    /\ result = Ok(30)

(* -------------------------- search, as specified ----------------------- *)

LowerToUpper ==
    [s |-> "S", u |-> "U", n |-> "N", w |-> "W", t |-> "T", h |-> "H",
     o |-> "O", r |-> "R", i |-> "I", d |-> "D", y |-> "Y", z |-> "Z"]

\* two characters that are the same letter, whatever their case
SameLetter(a, b) ==
    (IF a \in DOMAIN LowerToUpper THEN LowerToUpper[a] ELSE a) =
    (IF b \in DOMAIN LowerToUpper THEN LowerToUpper[b] ELSE b)

\* text contains query as a substring when case is ignored
ContainsIgnoringCase(text, query) ==
    \E offset \in 0..Len(text) :
        /\ offset + Len(query) <= Len(text)
        /\ \A j \in 1..Len(query) : SameLetter(text[offset + j], query[j])

\* C13: search always succeeds and returns exactly the stored harvesters whose
\* name or location contains the query as a substring, case ignored on both
\* sides; with the empty query it returns every stored harvester.
C13_Search ==
    call.op = "search" =>
        /\ result =
               Ok({ energyHarvesterStorage[k] : k \in
                      { k \in Keys(energyHarvesterStorage) :
                          \/ ContainsIgnoringCase(energyHarvesterStorage[k].name,
                                                  call.query)
                          \/ ContainsIgnoringCase(energyHarvesterStorage[k].location,
                                                  call.query) } })
        /\ call.query = EmptyString =>
               result = Ok({ energyHarvesterStorage[k] :
                               k \in Keys(energyHarvesterStorage) })

\* "SUN" was searched for in a store holding "Sun" at "North" and "Wind" at
\* "SUNny", and "Wind" was found through its location
C13_Witness ==
    /\ call.op = "search"
    /\ call.query = <<"S", "U", "N">>
    /\ Cardinality(Keys(energyHarvesterStorage)) = 2
    /\ IsOk(result)
    /\ Cardinality(result.Ok) = 2
    /\ \E h \in result.Ok : h.name = <<"S", "u", "n">>
    /\ \E h \in result.Ok : h.name = <<"W", "i", "n", "d">>

(* ------------------------ records, frames, lifecycle ------------------- *)

\* C14: getRecords returns the stored energyRecords, in their stored order,
\* for an id present in the store, NotFound for a non-empty absent id and
\* InvalidArgument for an empty id.
C14_GetRecords ==
    call.op = "records" =>
        /\ call.id \in Keys(energyHarvesterStorage) =>
               result = Ok(energyHarvesterStorage[call.id].energyRecords)
        /\ (call.id # "" /\ call.id \notin Keys(energyHarvesterStorage)) =>
               result = Err(NotFoundMsg(call.id))
        /\ call.id = "" => result = Err(InvalidIdRecords)

\* C15: once delete(id) has succeeded, id is never a key of the store again;
\* stated for the call that comes next after the delete, whichever it is.
C15_DeletionIrreversible ==
    [][(call.op = "delete" /\ IsOk(result)) =>
          call.id \notin Keys(energyHarvesterStorage')]_vars

ReadOps == {"list", "get", "search", "records", "total", "average"}

\* C16: list, getById, search, getRecords, totalPower and averagePower leave
\* the key set and every stored entity as they were, on success and failure.
C16_ReadsChangeNothing ==
    [][call'.op \in ReadOps =>
          /\ Keys(energyHarvesterStorage') = Keys(energyHarvesterStorage)
          /\ \A k \in Keys(energyHarvesterStorage) :
                 energyHarvesterStorage'[k] = energyHarvesterStorage[k]]_vars

\* a read has just failed on a store that holds two harvesters
C16_Witness ==
    /\ call.op \in ReadOps
    /\ IsErr(result)
    /\ Cardinality(Keys(energyHarvesterStorage)) = 2

\* C17: a successful update(id, P) leaves the key set as it was and every
\* entity stored under another key unchanged.
C17_UpdateFrame ==
    [][(call'.op = "update" /\ IsOk(result')) =>
          /\ Keys(energyHarvesterStorage') = Keys(energyHarvesterStorage)
          /\ \A k \in Keys(energyHarvesterStorage) \ {call'.id} :
                 energyHarvesterStorage'[k] = energyHarvesterStorage[k]]_vars

\* an update has just succeeded in a store of two harvesters and left them
\* with different records
C17_Witness ==
    /\ call.op = "update"
    /\ IsOk(result)
    /\ Cardinality(Keys(energyHarvesterStorage)) = 2
    /\ \E k \in Keys(energyHarvesterStorage) :
           energyHarvesterStorage[k].energyRecords # result.Ok.energyRecords

\* C18: every stored harvester has a non-empty name, a non-empty location and
\* at least one record, so averagePower returns NoData exactly when the store
\* is empty.
C18_StoredAreComplete ==
    /\ \A k \in Keys(energyHarvesterStorage) :
           ValidPayload(energyHarvesterStorage[k])
    /\ call.op = "average" =>
           (IsNoData(result) <=> Keys(energyHarvesterStorage) = {})

\* the average was asked for and found no data after the store, once filled,
\* had been emptied again
C18_Witness ==
    /\ call.op = "average"
    /\ IsNoData(result)
    /\ uuidCount >= 1

\* C19: the empty string is never a key of the store, so getById, getRecords,
\* update with a valid payload and delete are never rejected with
\* InvalidArgument for the id of a stored entity.
C19_StoredAreAddressable ==
    \A k \in Keys(energyHarvesterStorage) :
        /\ k # ""
        /\ ~IsInvalidArgument(getEnergyHarvester(energyHarvesterStorage, k))
        /\ ~IsInvalidArgument(getEnergyRecords(energyHarvesterStorage, k))
        /\ ~IsInvalidArgument(deleteEnergyHarvester(energyHarvesterStorage, k).result)
        /\ \A p \in Profiles :
               ~IsInvalidArgument(
                   updateEnergyHarvester(energyHarvesterStorage, k, p).result)

====
